---- MODULE Spec2Model ----
(***************************************************************************)
(* Splay trees of 15-451: the C program (src/c/splay_tree.c) and the C++   *)
(* program (src/cpp/splay_tree.cpp), modelled side by side.                *)
(*                                                                         *)
(* A pointer to a node is the node's slot in the contiguous allocation     *)
(* (0 .. n-1), or Null.  A C run is a record M = [T, log, ub]: the tree,   *)
(* the set of diagnostics printed so far (the C checks print and go on),    *)
(* and whether the run has dereferenced an invalid pointer.  A C++ run is   *)
(* a record M = [T, failed, ub]: the object, the assertion that aborted the  *)
(* program ("" while none has; the asserts are compiled in, no NDEBUG),     *)
(* and the same flag for an invalid dereference.                            *)
(*                                                                         *)
(* Spec is the driver that calls splay / splay_by_key with any key;        *)
(* RotSpec calls the rotations on their own; ConcSpec runs two callers on  *)
(* one tree, interleaved between single writes.                            *)
(***************************************************************************)
EXTENDS Integers, Sequences, FiniteSets, TLC

\* Largest tree size the driver builds.
MaxN == 5

\* NULL (C) and nullptr (C++): an address that is no slot of the allocation
\* and neither the slot before its first node nor the slot after its last.
Null == -2

\* The keys the driver passes: 0 and n+1 are the out-of-range keys.
Keys == 0 .. (MaxN + 1)

\* The sizes the driver passes to the constructors.
Sizes == 0 .. MaxN

---------------------------------------------------------------------------
(* The C program: struct node, struct tree.                                *)

\* struct node after calloc: every field zero, every pointer NULL.
c_node0 == [parent |-> Null, left |-> Null, right |-> Null, value |-> 0]

\* The value of "struct tree *T" when initialize_tree returned NULL.
c_NullTree == [null |-> TRUE, size |-> 0, root |-> Null, node |-> <<>>]

\* A C run that has printed nothing and hit no undefined behaviour.
c_run(T) == [T |-> T, log |-> {}, ub |-> FALSE]

\* printf of a diagnostic: the run goes on.
c_print(M, msg) == [M EXCEPT !.log = @ \cup {msg}]

\* A dereference of a pointer that is NULL or outside the allocation.
c_undefined(M) == [M EXCEPT !.ub = TRUE]

\* p points at a node of the allocation.
c_valid(M, p) == p \in DOMAIN M.T.node

\* p->f = v
c_store(M, p, f, v) ==
    IF M.ub THEN M
    ELSE IF ~c_valid(M, p) THEN c_undefined(M)
    ELSE [M EXCEPT !.T.node[p][f] = v]

\* p->f, read where the caller has established c_valid(M, p).
c_load(M, p, f) == M.T.node[p][f]

\* c_set_left without the update of left->parent.
c_set_left_one_way(M, parent, left) ==
    IF M.ub THEN M ELSE c_store(M, parent, "left", left)

c_set_left(M, parent, left) ==
    IF M.ub THEN M
    ELSE LET M1 == IF parent = Null THEN c_print(M, "missing node") ELSE M
             M2 == c_store(M1, parent, "left", left)
         IN  IF left # Null THEN c_store(M2, left, "parent", parent) ELSE M2

\* c_set_right doing what its header comment says: "Sets P's left child".
c_set_right_sets_left(M, parent, right) == c_set_left(M, parent, right)

c_set_right(M, parent, right) ==
    IF M.ub THEN M
    ELSE LET M1 == IF parent = Null THEN c_print(M, "missing node") ELSE M
             M2 == c_store(M1, parent, "right", right)
         IN  IF right # Null THEN c_store(M2, right, "parent", parent) ELSE M2

c_swap_child(M, parent, old, new) ==
    IF M.ub THEN M
    ELSE LET M1 == IF old = Null
                   THEN c_print(M, "Can't swap out empty node") ELSE M
             M2 == c_store(M1, new, "parent", parent)
         IN  IF M2.ub THEN M2
             ELSE IF parent = Null
                  THEN LET M3 == IF M2.T.root # old
                                 THEN c_print(M2, "Can't swap out a non-root node at the root")
                                 ELSE M2
                       IN  [M3 EXCEPT !.T.root = new]
             ELSE IF ~c_valid(M2, parent) THEN c_undefined(M2)
             ELSE IF c_load(M2, parent, "left") = old
                  THEN c_store(M2, parent, "left", new)
             ELSE IF c_load(M2, parent, "right") = old
                  THEN c_store(M2, parent, "right", new)
             ELSE LET M3 == c_print(M2, "Failed to find child")
                  IN  IF c_valid(M3, old) THEN M3 ELSE c_undefined(M3)

c_rotate_right(M, y) ==
    IF M.ub THEN M
    ELSE LET M1 == IF y = Null THEN c_print(M, "Cannot rotate around NULL") ELSE M
         IN  IF ~c_valid(M1, y) THEN c_undefined(M1)
             ELSE LET x  == c_load(M1, y, "left")
                      M2 == IF x = Null
                            THEN c_print(M1, "No left node found to replace the root")
                            ELSE M1
                  IN  IF ~c_valid(M2, x) THEN c_undefined(M2)
                      ELSE LET z == c_load(M2, y, "parent")
                               A == c_load(M2, x, "left")
                               B == c_load(M2, x, "right")
                               C == c_load(M2, y, "right")
                           IN  c_set_right(
                                 c_set_left(
                                   c_set_right(
                                     c_set_left(
                                       c_swap_child(M2, z, y, x),
                                       x, A),
                                     x, y),
                                   y, B),
                                 y, C)

c_rotate_left(M, x) ==
    IF M.ub THEN M
    ELSE LET M1 == IF x = Null THEN c_print(M, "Cannot rotate around NULL") ELSE M
         IN  IF ~c_valid(M1, x) THEN c_undefined(M1)
             ELSE LET y  == c_load(M1, x, "right")
                      M2 == IF y = Null
                            THEN c_print(M1, "No right node found to replace the root")
                            ELSE M1
                  IN  IF ~c_valid(M2, y) THEN c_undefined(M2)
                      ELSE LET z == c_load(M2, x, "parent")
                               A == c_load(M2, x, "left")
                               B == c_load(M2, y, "left")
                               C == c_load(M2, y, "right")
                           IN  c_set_left(
                                 c_set_right(
                                   c_set_left(
                                     c_set_right(
                                       c_swap_child(M2, z, x, y),
                                       y, C),
                                     y, x),
                                   x, B),
                                 x, A)

\* c_rotate with the two directions mixed up.
c_rotate_swapped(M, r) ==
    IF r.dir = "right" THEN c_rotate_left(M, r.at) ELSE c_rotate_right(M, r.at)

\* One rotation, named by its direction and the node it is about.
c_rotate(M, r) ==
    IF r.dir = "right" THEN c_rotate_right(M, r.at) ELSE c_rotate_left(M, r.at)

\* c_branch whose zig-zig branches rotate about z twice.
c_branch_rotates_z_twice(name, y, z) ==
    LET R(d, nd) == [dir |-> d, at |-> nd]
    IN  CASE name = "zig left"       -> <<R("right", y)>>
          [] name = "zig right"      -> <<R("left", y)>>
          [] name = "zig-zag left"   -> <<R("left", y), R("right", z)>>
          [] name = "zig-zag right"  -> <<R("right", y), R("left", z)>>
          [] name = "zig-zig left"   -> <<R("right", z), R("right", z)>>
          [] name = "zig-zig right"  -> <<R("left", z), R("left", z)>>

\* c_branch whose zig-zig branches rotate about y first and then about z,
\* which moves x to the top one rotation at a time.
c_branch_y_then_z(name, y, z) ==
    LET R(d, nd) == [dir |-> d, at |-> nd]
    IN  CASE name = "zig left"       -> <<R("right", y)>>
          [] name = "zig right"      -> <<R("left", y)>>
          [] name = "zig-zag left"   -> <<R("left", y), R("right", z)>>
          [] name = "zig-zag right"  -> <<R("right", y), R("left", z)>>
          [] name = "zig-zig left"   -> <<R("right", y), R("right", z)>>
          [] name = "zig-zig right"  -> <<R("left", y), R("left", z)>>

\* The rotations of each branch of splay_step, in the order it calls them:
\* x is the node splayed, y its parent, z its grandparent.
c_branch(name, y, z) ==
    LET R(d, nd) == [dir |-> d, at |-> nd]
    IN  CASE name = "zig left"       -> <<R("right", y)>>
          [] name = "zig right"      -> <<R("left", y)>>
          [] name = "zig-zag left"   -> <<R("left", y), R("right", z)>>
          [] name = "zig-zag right"  -> <<R("right", y), R("left", z)>>
          [] name = "zig-zig left"   -> <<R("right", z), R("right", y)>>
          [] name = "zig-zig right"  -> <<R("left", z), R("left", y)>>

\* splay_step up to its first rotation: the case analysis.  rots is the
\* sequence of rotations the matching branch performs (empty when the
\* function returns without rotating).
c_splay_step_cases(M, x) ==
    LET stop(MM) == [M |-> MM, rots |-> <<>>]
        M1 == IF x = Null THEN c_print(M, "Can't splay NULL") ELSE M
    IN  IF M.ub THEN stop(M)
        ELSE IF ~c_valid(M1, x) THEN stop(c_undefined(M1))
        ELSE LET y == c_load(M1, x, "parent")
             IN  IF y = Null THEN stop(M1)
                 ELSE IF ~c_valid(M1, y) THEN stop(c_undefined(M1))
                 ELSE LET z  == c_load(M1, y, "parent")
                          go(name) == [M |-> M1, rots |-> c_branch(name, y, z)]
                      IN  IF z = Null /\ c_load(M1, y, "left") = x
                              THEN go("zig left")
                          ELSE IF z = Null /\ c_load(M1, y, "right") = x
                              THEN go("zig right")
                          ELSE IF ~c_valid(M1, z) THEN stop(c_undefined(M1))
                          ELSE LET zl == c_load(M1, z, "left")
                                   zr == c_load(M1, z, "right")
                               IN  IF zl # Null /\ ~c_valid(M1, zl)
                                       THEN stop(c_undefined(M1))
                                   ELSE IF zl # Null /\ c_load(M1, zl, "right") = x
                                       THEN go("zig-zag left")
                                   ELSE IF zr # Null /\ ~c_valid(M1, zr)
                                       THEN stop(c_undefined(M1))
                                   ELSE IF zr # Null /\ c_load(M1, zr, "left") = x
                                       THEN go("zig-zag right")
                                   ELSE IF zl # Null /\ c_load(M1, zl, "left") = x
                                       THEN go("zig-zig left")
                                   ELSE IF zr # Null /\ c_load(M1, zr, "right") = x
                                       THEN go("zig-zig right")
                                   ELSE stop(c_print(M1, "Invalid tree"))

\* The chaining loop of initialize_tree, from iteration i on: in iteration
\* i, current is slot i-1.
RECURSIVE c_chain(_, _, _)
c_chain(M, i, n) ==
    IF i < n
    THEN LET current == i - 1
             M1 == c_store(M, current, "value", i)
             M2 == c_store(M1, current, "parent", current + 1)
             M3 == c_store(M2, c_load(M2, current, "parent"), "left", current)
         IN  c_chain(M3, i + 1, n)
    ELSE M

\* initialize_tree(n), n >= 0: calloc zeroes the n nodes.
c_initialize_tree(n) ==
    IF n = 0 THEN c_run(c_NullTree)
    ELSE LET T0 == [null |-> FALSE, size |-> n, root |-> 0,
                    node |-> [i \in 0 .. (n - 1) |-> c_node0]]
             M1 == c_chain(c_run(T0), 1, n)
             current == n - 1
             M2 == c_store(M1, current, "value", n)
         IN  [M2 EXCEPT !.T.root = current]

\* c_lookup with the offset taken from the size of the tree instead of
\* from the key of the current root.
c_lookup_from_size(T, k) == T.root + (k - T.size)

\* c_lookup that takes T->root for the first node of the allocation, which
\* it is only between the calloc and the end of initialize_tree.
c_lookup_from_base(T, k) == T.root + (k - 1)

\* T->root + (k - T->root->value)
c_lookup(T, k) == T.root + (k - T.node[T.root].value)

\* splay(T, k) up to the call of splay_node: the two checks print and the
\* function goes on; x is the pointer handed to splay_node.
c_splay_entry(M, k) ==
    IF M.T.null
    THEN [M |-> c_undefined(c_print(M, "Tree cannot be NULL")), x |-> Null]
    ELSE LET M1 == IF k <= 0 \/ k > M.T.size
                   THEN c_print(M, "Invalid node request") ELSE M
         IN  [M |-> M1, x |-> c_lookup(M1.T, k)]

\* The check of splay after splay_node has returned.
c_splay_exit(M, k) ==
    IF c_load(M, M.T.root, "value") # k THEN c_print(M, "Splay failed") ELSE M

---------------------------------------------------------------------------
(* The C++ program: class SplayTree, struct Node.                          *)

\* Node(value_): size 1, the three pointers nullptr.
cpp_Node(value) ==
    [value |-> value, size |-> 1, parent |-> Null, left |-> Null, right |-> Null]

\* A C++ run with no assertion failed; root is set by set_root.
cpp_run(T) == [T |-> T, failed |-> "", ub |-> FALSE]

\* The program has aborted, or has dereferenced an invalid pointer.
cpp_halted(M) == M.failed # "" \/ M.ub

\* assert(cond): aborts the program when cond is false.
cpp_assert(M, cond, what) ==
    IF cpp_halted(M) \/ cond THEN M ELSE [M EXCEPT !.failed = what]

cpp_undefined(M) == [M EXCEPT !.ub = TRUE]

\* p points at an element of nodes.
cpp_valid(M, p) == p \in DOMAIN M.T.nodes

\* p->f = v
cpp_store(M, p, f, v) ==
    IF cpp_halted(M) THEN M
    ELSE IF ~cpp_valid(M, p) THEN cpp_undefined(M)
    ELSE [M EXCEPT !.T.nodes[p][f] = v]

\* p->f, read where the caller has established cpp_valid(M, p).
cpp_load(M, p, f) == M.T.nodes[p][f]

\* nodes.emplace_back(value)
cpp_emplace_back(M, value) ==
    LET len == Cardinality(DOMAIN M.T.nodes)
    IN  [M EXCEPT !.T.nodes =
            [i \in 0 .. len |-> IF i < len THEN M.T.nodes[i] ELSE cpp_Node(value)]]

\* cpp_set_left without node->parent = this.
cpp_set_left_one_way(M, this, node) == cpp_store(M, this, "left", node)

\* this->set_left(node)
cpp_set_left(M, this, node) ==
    LET M1 == cpp_store(M, this, "left", node)
    IN  IF node # Null THEN cpp_store(M1, node, "parent", this) ELSE M1

\* cpp_set_right without node->parent = this.
cpp_set_right_one_way(M, this, node) == cpp_store(M, this, "right", node)

\* this->set_right(node)
cpp_set_right(M, this, node) ==
    LET M1 == cpp_store(M, this, "right", node)
    IN  IF node # Null THEN cpp_store(M1, node, "parent", this) ELSE M1

\* cpp_replace_child that puts the new child on the left whichever side
\* the old one was on.
cpp_replace_child_always_left(M, this, old, new_child) ==
    IF cpp_halted(M) THEN M
    ELSE IF ~cpp_valid(M, this) THEN cpp_undefined(M)
    ELSE cpp_set_left(M, this, new_child)

\* this->replace_child(old, new_child)
cpp_replace_child(M, this, old, new_child) ==
    IF cpp_halted(M) THEN M
    ELSE IF ~cpp_valid(M, this) THEN cpp_undefined(M)
    ELSE LET M1 == cpp_assert(M, cpp_load(M, this, "left") = old
                                  \/ cpp_load(M, this, "right") = old,
                              "left == old || right == old")
         IN  IF cpp_load(M, this, "left") = old
             THEN cpp_set_left(M1, this, new_child)
             ELSE cpp_set_right(M1, this, new_child)

\* cpp_set_root without x->parent = nullptr.
cpp_set_root_keeps_parent(M, x) ==
    LET M1 == cpp_assert(M, x # Null, "x != nullptr")
    IN  IF cpp_halted(M1) THEN M1 ELSE [M1 EXCEPT !.T.root = x]

cpp_set_root(M, x) ==
    LET M1 == cpp_assert(M, x # Null, "x != nullptr")
    IN  IF cpp_halted(M1) THEN M1
        ELSE cpp_store([M1 EXCEPT !.T.root = x], x, "parent", Null)

cpp_rotate_right(M, y) ==
    LET M1 == cpp_assert(M, y # Null, "y != nullptr")
    IN  IF cpp_halted(M1) THEN M1
        ELSE IF ~cpp_valid(M1, y) THEN cpp_undefined(M1)
        ELSE LET x  == cpp_load(M1, y, "left")
                 M2 == cpp_assert(M1, x # Null, "x != nullptr")
             IN  IF cpp_halted(M2) THEN M2
                 ELSE IF ~cpp_valid(M2, x) THEN cpp_undefined(M2)
                 ELSE LET z == cpp_load(M2, y, "parent")
                          A == cpp_load(M2, x, "left")
                          B == cpp_load(M2, x, "right")
                          C == cpp_load(M2, y, "right")
                          M3 == IF z = Null THEN cpp_set_root(M2, x)
                                ELSE cpp_replace_child(M2, z, y, x)
                      IN  cpp_set_right(
                            cpp_set_left(
                              cpp_set_right(
                                cpp_set_left(M3, x, A),
                                x, y),
                              y, B),
                            y, C)

cpp_rotate_left(M, x) ==
    LET M1 == cpp_assert(M, x # Null, "x != nullptr")
    IN  IF cpp_halted(M1) THEN M1
        ELSE IF ~cpp_valid(M1, x) THEN cpp_undefined(M1)
        ELSE LET y  == cpp_load(M1, x, "right")
                 M2 == cpp_assert(M1, y # Null, "y != nullptr")
             IN  IF cpp_halted(M2) THEN M2
                 ELSE IF ~cpp_valid(M2, y) THEN cpp_undefined(M2)
                 ELSE LET z == cpp_load(M2, x, "parent")
                          A == cpp_load(M2, x, "left")
                          B == cpp_load(M2, y, "left")
                          C == cpp_load(M2, y, "right")
                          M3 == IF z = Null THEN cpp_set_root(M2, y)
                                ELSE cpp_replace_child(M2, z, x, y)
                      IN  cpp_set_left(
                            cpp_set_right(
                              cpp_set_left(
                                cpp_set_right(M3, y, C),
                                y, x),
                              x, B),
                            x, A)

\* One rotation, named by its direction and the node it is about.
cpp_rotate(M, r) ==
    IF r.dir = "right" THEN cpp_rotate_right(M, r.at) ELSE cpp_rotate_left(M, r.at)

\* cpp_branch whose zig-zig branches stop after the rotation about z.
cpp_branch_one_rotation(name, y, z) ==
    LET R(d, nd) == [dir |-> d, at |-> nd]
    IN  CASE name = "zig left"       -> <<R("right", y)>>
          [] name = "zig right"      -> <<R("left", y)>>
          [] name = "zig-zag left"   -> <<R("left", y), R("right", z)>>
          [] name = "zig-zag right"  -> <<R("right", y), R("left", z)>>
          [] name = "zig-zig left"   -> <<R("right", z)>>
          [] name = "zig-zig right"  -> <<R("left", z)>>

\* cpp_branch whose zig-zag branches rotate about z first and then about y.
cpp_branch_zigzag_z_first(name, y, z) ==
    LET R(d, nd) == [dir |-> d, at |-> nd]
    IN  CASE name = "zig left"       -> <<R("right", y)>>
          [] name = "zig right"      -> <<R("left", y)>>
          [] name = "zig-zag left"   -> <<R("right", z), R("left", y)>>
          [] name = "zig-zag right"  -> <<R("left", z), R("right", y)>>
          [] name = "zig-zig left"   -> <<R("right", z), R("right", y)>>
          [] name = "zig-zig right"  -> <<R("left", z), R("left", y)>>

\* The rotations of each branch of splay_step, in the order it calls them:
\* x is the node splayed, y its parent, z its grandparent.
cpp_branch(name, y, z) ==
    LET R(d, nd) == [dir |-> d, at |-> nd]
    IN  CASE name = "zig left"       -> <<R("right", y)>>
          [] name = "zig right"      -> <<R("left", y)>>
          [] name = "zig-zag left"   -> <<R("left", y), R("right", z)>>
          [] name = "zig-zag right"  -> <<R("right", y), R("left", z)>>
          [] name = "zig-zig left"   -> <<R("right", z), R("right", y)>>
          [] name = "zig-zig right"  -> <<R("left", z), R("left", y)>>

\* splay_step up to its first rotation: the asserts and the case analysis.
cpp_splay_step_cases(M, x) ==
    LET M1 == cpp_assert(M, x # Null, "x != nullptr")
        stop(MM) == [M |-> MM, rots |-> <<>>]
    IN  IF cpp_halted(M1) THEN stop(M1)
        ELSE IF ~cpp_valid(M1, x) THEN stop(cpp_undefined(M1))
        ELSE LET y == cpp_load(M1, x, "parent")
             IN  IF y = Null THEN stop(M1)
                 ELSE IF ~cpp_valid(M1, y) THEN stop(cpp_undefined(M1))
                 ELSE LET z == cpp_load(M1, y, "parent")
                          yl == cpp_load(M1, y, "left")
                          yr == cpp_load(M1, y, "right")
                      IN  IF z = Null
                          THEN LET M2 == cpp_assert(M1, yl = x \/ yr = x,
                                                    "y->left == x || y->right == x")
                               IN  IF cpp_halted(M2) THEN stop(M2)
                                   ELSE IF yl = x
                                        THEN [M |-> M2, rots |-> cpp_branch("zig left", y, z)]
                                        ELSE [M |-> M2, rots |-> cpp_branch("zig right", y, z)]
                          ELSE IF ~cpp_valid(M1, z) THEN stop(cpp_undefined(M1))
                          ELSE LET zl == cpp_load(M1, z, "left")
                                   zr == cpp_load(M1, z, "right")
                               IN  IF (zl # Null /\ ~cpp_valid(M1, zl))
                                      \/ (zr # Null /\ ~cpp_valid(M1, zr))
                                   THEN stop(cpp_undefined(M1))
                                   ELSE LET lr == zl # Null /\ cpp_load(M1, zl, "right") = x
                                            rl == zr # Null /\ cpp_load(M1, zr, "left") = x
                                            ll == zl # Null /\ cpp_load(M1, zl, "left") = x
                                            rr == zr # Null /\ cpp_load(M1, zr, "right") = x
                                            M2 == cpp_assert(M1, lr \/ rl \/ ll \/ rr,
                                                             "x is a grandchild of z")
                                            go(name) == [M |-> M2, rots |-> cpp_branch(name, y, z)]
                                        IN  IF cpp_halted(M2) THEN stop(M2)
                                            ELSE IF lr THEN go("zig-zag left")
                                            ELSE IF rl THEN go("zig-zag right")
                                            ELSE IF ll THEN go("zig-zig left")
                                            ELSE go("zig-zig right")

\* The loop of the constructor from iteration i on.
RECURSIVE cpp_chain(_, _, _)
cpp_chain(M, i, n) ==
    IF i < n
    THEN cpp_chain(cpp_set_left(cpp_emplace_back(M, i + 1), i, i - 1), i + 1, n)
    ELSE M

\* cpp_SplayTree that makes the first element of nodes the root.
cpp_SplayTree_root_front(n) ==
    LET M0 == cpp_run([root |-> Null, nodes |-> <<>>])
        M1 == cpp_emplace_back(M0, 1)
        M2 == cpp_chain(M1, 1, n)
    IN  cpp_set_root(M2, 0)

\* SplayTree(n): nodes starts empty and the first emplace_back is
\* unconditional; reserve(n) keeps the addresses of the first n elements
\* stable.
cpp_SplayTree(n) ==
    LET M0 == cpp_run([root |-> Null, nodes |-> <<>>])
        M1 == cpp_emplace_back(M0, 1)
        M2 == cpp_chain(M1, 1, n)
    IN  cpp_set_root(M2, Cardinality(DOMAIN M2.T.nodes) - 1)

\* nodes.size()
cpp_size(T) == Cardinality(DOMAIN T.nodes)

\* cpp_splay_entry that takes &nodes[key] for the node of the key.
cpp_splay_entry_slot_key(M, key) ==
    LET M1 == cpp_assert(M, 1 <= key /\ key <= cpp_size(M.T),
                         "1 <= key && key <= nodes.size()")
    IN  IF cpp_halted(M1) THEN [M |-> M1, x |-> Null]
        ELSE [M |-> M1, x |-> key]

\* splay_by_key(key) up to the loop of splay: x is the node to splay.
cpp_splay_entry(M, key) ==
    LET M1 == cpp_assert(M, 1 <= key /\ key <= cpp_size(M.T),
                         "1 <= key && key <= nodes.size()")
    IN  IF cpp_halted(M1) THEN [M |-> M1, x |-> Null]
        ELSE [M |-> cpp_assert(M1, key - 1 # Null, "x != nullptr"), x |-> key - 1]

---------------------------------------------------------------------------
(* Reading a tree: nd is the node table of either program (slot -> node).  *)

\* The number of parent links from x up to a node without parent; fuel
\* bounds the walk, so a cycle of parent links yields more than any depth.
RECURSIVE DepthFrom(_, _, _)
DepthFrom(nd, x, fuel) ==
    IF fuel = 0 \/ x \notin DOMAIN nd \/ nd[x].parent \notin DOMAIN nd THEN 0
    ELSE 1 + DepthFrom(nd, nd[x].parent, fuel - 1)

Depth(nd, x) == DepthFrom(nd, x, Cardinality(DOMAIN nd) + 1)

\* The slots visited by an inorder traversal from r along left and right;
\* fuel bounds the recursion depth, so it ends on a cyclic structure too.
RECURSIVE InorderFrom(_, _, _)
InorderFrom(nd, r, fuel) ==
    IF fuel = 0 \/ r \notin DOMAIN nd THEN <<>>
    ELSE InorderFrom(nd, nd[r].left, fuel - 1) \o <<r>>
         \o InorderFrom(nd, nd[r].right, fuel - 1)

Inorder(nd, r) == InorderFrom(nd, r, Cardinality(DOMAIN nd) + 1)

\* The keys met by the inorder traversal, in order.
InorderKeys(nd, r) ==
    LET s == Inorder(nd, r) IN [i \in 1 .. Len(s) |-> nd[s[i]].value]

---------------------------------------------------------------------------
(* The state: one driver, which builds both trees with the same n and      *)
(* hands every key to both programs.                                       *)

VARIABLES
    n,          \* the size the trees were built with
    key,        \* the key of the latest call
    c_M,        \* the C run: tree, diagnostics printed, undefined behaviour
    c_pc,       \* where the C program is
    c_x,        \* the node splay_node is splaying
    c_rots,     \* the rotations splay_step has still to perform
    c_steps,    \* calls of splay_step made by the running splay_node
    c_d0,       \* depth of c_x when splay_node was called
    c_last,     \* the latest splay_step: depth of c_x before it, its rotations
    cpp_M,      \* the C++ run: object, failed assertion
    cpp_pc,     \* where the C++ program is
    cpp_x,      \* the node splay is splaying
    cpp_rots,   \* the rotations splay_step has still to perform
    cpp_steps,  \* calls of splay_step made by the running splay
    cpp_d0,     \* depth of cpp_x when splay was called
    cpp_last,   \* the latest splay_step: depth of cpp_x before it, its rotations
    rot,        \* the latest direct call of a rotation, and the trees before it
    th          \* the threads that share the tree, each with its locals

c_vars == <<c_M, c_pc, c_x, c_rots, c_steps, c_d0, c_last>>
cpp_vars == <<cpp_M, cpp_pc, cpp_x, cpp_rots, cpp_steps, cpp_d0, cpp_last>>
aux == <<rot, th>>
vars == <<n, key, c_vars, cpp_vars, aux>>

\* Between operations: built and never called, or returned from a call.
Idle == {"ready", "done"}

\* The program has stopped and takes no further call.
Dead == {"aborted", "undefined", "crashed", "hung", "corrupted"}

\* pc values: "ready", "done", "loop" (at the loop test of splay_node or
\* splay), "rotate" (between the two rotations of a splay_step), "ub" (the
\* C program has just executed undefined behaviour), and those of Dead.

NoStep == [depth |-> 0, plan |-> <<>>, pre |-> <<>>, root |-> Null]

\* No rotation has been called directly.
NoRot ==
    [dir |-> "none", at |-> Null, back |-> FALSE,
     c |-> c_NullTree, cpp |-> [root |-> Null, nodes |-> <<>>],
     c0 |-> c_NullTree, cpp0 |-> [root |-> Null, nodes |-> <<>>]]

\* No thread has been started.
NoThreads == [prog |-> "none", overlap |-> FALSE, t |-> <<>>]

\* main: the tree is built by initialize_tree(n) and by SplayTree(n).
Init ==
    \E n0 \in Sizes :
        /\ n = n0
        /\ key = 0
        /\ c_M = c_initialize_tree(n0)
        /\ c_pc = "ready"
        /\ c_x = Null
        /\ c_rots = <<>>
        /\ c_steps = 0
        /\ c_d0 = 0
        /\ c_last = NoStep
        /\ cpp_M = cpp_SplayTree(n0)
        /\ cpp_pc = "ready"
        /\ cpp_x = Null
        /\ cpp_rots = <<>>
        /\ cpp_steps = 0
        /\ cpp_d0 = 0
        /\ cpp_last = NoStep
        /\ rot = NoRot
        /\ th = NoThreads

\* splay(T, k) enters splay_node.
C_Enter(k) ==
    LET e == c_splay_entry(c_M, k)
    IN  /\ c_M' = e.M
        /\ c_x' = e.x
        /\ c_pc' = IF e.M.ub THEN "ub" ELSE "loop"
        /\ c_rots' = <<>>
        /\ c_steps' = 0
        /\ c_d0' = Depth(e.M.T.node, e.x)
        /\ c_last' = NoStep

\* tree.splay_by_key(k) enters splay.
Cpp_Enter(k) ==
    LET e == cpp_splay_entry(cpp_M, k)
    IN  /\ cpp_M' = e.M
        /\ cpp_x' = e.x
        /\ cpp_pc' = IF e.M.failed # "" THEN "aborted"
                     ELSE IF e.M.ub THEN "undefined" ELSE "loop"
        /\ cpp_rots' = <<>>
        /\ cpp_steps' = 0
        /\ cpp_d0' = Depth(e.M.T.nodes, e.x)
        /\ cpp_last' = NoStep

\* The driver calls splay(T, k) and tree.splay_by_key(k); a program that
\* has stopped takes no call.
Call(k) ==
    /\ c_pc \in Idle \cup Dead
    /\ cpp_pc \in Idle \cup Dead
    /\ c_pc \in Idle \/ cpp_pc \in Idle
    /\ key' = k
    /\ IF c_pc \in Idle THEN C_Enter(k) ELSE UNCHANGED c_vars
    /\ IF cpp_pc \in Idle THEN Cpp_Enter(k) ELSE UNCHANGED cpp_vars
    /\ UNCHANGED <<n, aux>>

\* splay_node: the loop test holds; splay_step runs up to the end of its
\* first rotation (or returns without one).
C_SplayStep ==
    /\ c_pc = "loop"
    /\ c_M.T.root # c_x
    /\ c_steps <= MaxN
    /\ LET P  == c_splay_step_cases(c_M, c_x)
           M1 == IF P.rots = <<>> THEN P.M ELSE c_rotate(P.M, Head(P.rots))
       IN  /\ c_M' = M1
           /\ c_rots' = IF P.rots = <<>> THEN <<>> ELSE Tail(P.rots)
           /\ c_pc' = IF M1.ub THEN "ub"
                      ELSE IF Len(P.rots) > 1 THEN "rotate" ELSE "loop"
           /\ c_last' = [depth |-> Depth(c_M.T.node, c_x), plan |-> P.rots,
                         pre |-> c_M.T.node, root |-> c_M.T.root]
    /\ c_steps' = c_steps + 1
    /\ UNCHANGED <<n, key, c_x, c_d0, cpp_vars, aux>>

\* splay_step: the second rotation of a zig-zig or zig-zag.
C_Rotate ==
    /\ c_pc = "rotate"
    /\ LET M1 == c_rotate(c_M, Head(c_rots))
       IN  /\ c_M' = M1
           /\ c_pc' = IF M1.ub THEN "ub" ELSE "loop"
    /\ c_rots' = Tail(c_rots)
    /\ UNCHANGED <<n, key, c_x, c_steps, c_d0, c_last, cpp_vars, aux>>

\* splay_node: the loop test fails; splay checks the root and returns.
C_Return ==
    /\ c_pc = "loop"
    /\ c_M.T.root = c_x
    /\ c_M' = c_splay_exit(c_M, key)
    /\ c_pc' = "done"
    /\ UNCHANGED <<n, key, c_x, c_rots, c_steps, c_d0, c_last, cpp_vars, aux>>

\* The C program has dereferenced a pointer that is NULL or outside the
\* allocation: it is killed, or the garbage read as x->parent is NULL and
\* the loop of splay_node spins, or a write through a garbage pointer
\* lands in the allocation.
C_Undefined ==
    /\ c_pc = "ub"
    /\ \E o \in {"crashed", "hung", "corrupted"} :
          /\ c_pc' = o
          /\ IF o = "corrupted"
             THEN \E p \in DOMAIN c_M.T.node, f \in {"parent", "left", "right"},
                     v \in DOMAIN c_M.T.node \cup {Null} :
                     c_M' = [c_M EXCEPT !.T.node[p][f] = v]
             ELSE c_M' = c_M
    /\ UNCHANGED <<n, key, c_x, c_rots, c_steps, c_d0, c_last, cpp_vars, aux>>

\* splay: the loop test holds; splay_step runs up to the end of its first
\* rotation (or returns without one).
Cpp_SplayStep ==
    /\ cpp_pc = "loop"
    /\ cpp_M.T.root # cpp_x
    /\ cpp_steps <= MaxN
    /\ LET P  == cpp_splay_step_cases(cpp_M, cpp_x)
           M1 == IF P.rots = <<>> THEN P.M ELSE cpp_rotate(P.M, Head(P.rots))
       IN  /\ cpp_M' = M1
           /\ cpp_rots' = IF P.rots = <<>> THEN <<>> ELSE Tail(P.rots)
           /\ cpp_pc' = IF M1.failed # "" THEN "aborted"
                        ELSE IF M1.ub THEN "undefined"
                        ELSE IF Len(P.rots) > 1 THEN "rotate" ELSE "loop"
           /\ cpp_last' = [depth |-> Depth(cpp_M.T.nodes, cpp_x), plan |-> P.rots,
                           pre |-> cpp_M.T.nodes, root |-> cpp_M.T.root]
    /\ cpp_steps' = cpp_steps + 1
    /\ UNCHANGED <<n, key, cpp_x, cpp_d0, c_vars, aux>>

\* splay_step: the second rotation of a zig-zig or zig-zag.
Cpp_Rotate ==
    /\ cpp_pc = "rotate"
    /\ LET M1 == cpp_rotate(cpp_M, Head(cpp_rots))
       IN  /\ cpp_M' = M1
           /\ cpp_pc' = IF M1.failed # "" THEN "aborted"
                        ELSE IF M1.ub THEN "undefined" ELSE "loop"
    /\ cpp_rots' = Tail(cpp_rots)
    /\ UNCHANGED <<n, key, cpp_x, cpp_steps, cpp_d0, cpp_last, c_vars, aux>>

\* splay: the loop test fails; splay and splay_by_key return.
Cpp_Return ==
    /\ cpp_pc = "loop"
    /\ cpp_M.T.root = cpp_x
    /\ cpp_pc' = "done"
    /\ UNCHANGED <<n, key, cpp_M, cpp_x, cpp_rots, cpp_steps, cpp_d0, cpp_last, c_vars, aux>>

Next ==
    \/ \E k \in Keys : Call(k)
    \/ C_SplayStep
    \/ C_Rotate
    \/ C_Return
    \/ C_Undefined
    \/ Cpp_SplayStep
    \/ Cpp_Rotate
    \/ Cpp_Return

Spec == Init /\ [][Next]_vars

---------------------------------------------------------------------------
(* Properties.                                                             *)

\* The program is running or between operations, with a tree to look at.
c_live == c_pc \in {"ready", "done", "loop", "rotate"} /\ ~c_M.T.null
cpp_live == cpp_pc \in {"ready", "done", "loop", "rotate"}

c_nd == c_M.T.node
c_root == c_M.T.root
cpp_nd == cpp_M.T.nodes
cpp_root == cpp_M.T.root

\* Exactly one node has no parent, and it is the recorded root r.
SingleRoot(nd, r) == {p \in DOMAIN nd : nd[p].parent = Null} = {r}

\* Every node but r is exactly one of its parent's left and right, and
\* every left or right relation is answered by the parent relation.
ParentChildConsistent(nd, r) ==
    /\ \A x \in DOMAIN nd \ {r} :
          /\ nd[x].parent \in DOMAIN nd
          /\ (nd[nd[x].parent].left = x) # (nd[nd[x].parent].right = x)
    /\ \A p \in DOMAIN nd : \A f \in {"left", "right"} :
          nd[p][f] # Null =>
              /\ nd[p][f] \in DOMAIN nd
              /\ nd[nd[p][f]].parent = p

\* C1: whenever splay_by_key(k) has returned, the recorded root is the node
\* whose key is k, in both programs, and the C program has never printed
\* "Splay failed".
C1_SplayPostcondition ==
    /\ "Splay failed" \notin c_M.log
    /\ c_pc = "done" => c_nd[c_root].value = key
    /\ cpp_pc = "done" => cpp_nd[cpp_root].value = key

\* A call that had to rotate twice or more has returned in both programs.
C1_Witness ==
    /\ n >= 3 /\ key = 2
    /\ c_pc = "done" /\ c_steps >= 1 /\ c_nd[c_root].value = 2
    /\ cpp_pc = "done" /\ cpp_steps >= 1 /\ cpp_nd[cpp_root].value = 2

\* C2: between operations, the inorder traversal from the root visits each
\* of the n nodes once and yields the keys 1, 2, ..., n in that order, n
\* being the size the tree was built with.
C2_BstOrder ==
    /\ c_pc \in Idle /\ ~c_M.T.null =>
          InorderKeys(c_nd, c_root) = [i \in 1 .. n |-> i]
    /\ cpp_pc \in Idle =>
          InorderKeys(cpp_nd, cpp_root) = [i \in 1 .. n |-> i]

\* C3: after build and after every completed rotation, exactly one node has
\* no parent, and it is the recorded root.
C3_SingleRoot ==
    /\ c_live => SingleRoot(c_nd, c_root)
    /\ cpp_live => SingleRoot(cpp_nd, cpp_root)

\* Both programs are between the two rotations of a splay step.
C3_Witness ==
    /\ c_pc = "rotate" /\ SingleRoot(c_nd, c_root)
    /\ cpp_pc = "rotate" /\ SingleRoot(cpp_nd, cpp_root)
    /\ c_root # n - 1

\* C4: between operations every node but the root is exactly one of its
\* parent's left and right, and every non-null left or right relation of
\* a node p points to a node whose parent is p.
C4_ParentChildConsistency ==
    /\ c_pc \in Idle /\ ~c_M.T.null => ParentChildConsistent(c_nd, c_root)
    /\ cpp_pc \in Idle => ParentChildConsistent(cpp_nd, cpp_root)

\* Both programs have returned from a call that left a node with two
\* children at the root.
C4_Witness ==
    /\ c_pc = "done" /\ c_nd[c_root].left # Null /\ c_nd[c_root].right # Null
    /\ cpp_pc = "done" /\ cpp_nd[cpp_root].left # Null /\ cpp_nd[cpp_root].right # Null
    /\ ParentChildConsistent(c_nd, c_root)
    /\ ParentChildConsistent(cpp_nd, cpp_root)

\* C5: splay(x) on a node x of the tree makes at most d calls of
\* splay_step, d being the depth of x when it is called (at most the number
\* of nodes less one), never stops short of returning, and returns with x
\* as root.  Every iteration of the loop counts in c_steps and cpp_steps,
\* so the bound on them is the termination of the loop.
C5_Termination ==
    /\ c_pc \notin Idle /\ ~c_M.T.null /\ c_x \in DOMAIN c_nd =>
          c_pc \in {"loop", "rotate"}
    /\ c_live /\ c_pc # "ready" /\ c_x \in DOMAIN c_nd =>
          /\ c_steps <= c_d0
          /\ c_d0 <= Cardinality(DOMAIN c_nd) - 1
          /\ c_pc = "done" => c_root = c_x
    /\ cpp_pc \notin Idle /\ cpp_x \in DOMAIN cpp_nd =>
          cpp_pc \in {"loop", "rotate"}
    /\ cpp_live /\ cpp_pc # "ready" =>
          /\ cpp_steps <= cpp_d0
          /\ cpp_d0 <= Cardinality(DOMAIN cpp_nd) - 1
          /\ cpp_pc = "done" => cpp_root = cpp_x

\* Both programs have returned from splaying a node of depth 3 in two
\* splay steps.
C5_Witness ==
    /\ c_pc = "done" /\ c_d0 = 3 /\ c_steps = 2 /\ c_root = c_x
    /\ cpp_pc = "done" /\ cpp_d0 = 3 /\ cpp_steps = 2 /\ cpp_root = cpp_x

\* C6: a call with a key outside [1, size] stops at once in both programs:
\* nothing is looked up or rotated, the tree is as it was, and the program
\* does not go on into splay_node or splay.
C6_OutOfRangeIsFatal ==
    [][\A k \in Keys :
         /\ (Call(k) /\ c_pc \in Idle /\ ~c_M.T.null /\ (k < 1 \/ k > c_M.T.size))
                => (c_pc' = "aborted" /\ c_M'.T = c_M.T)
         /\ (Call(k) /\ cpp_pc \in Idle /\ (k < 1 \/ k > cpp_size(cpp_M.T)))
                => (cpp_pc' = "aborted" /\ cpp_M'.T = cpp_M.T)]_vars

\* The chain of m nodes: slot i holds key i+1, the last slot is the root,
\* every node has the slot before it as left and no right.
ChainShape(nd, r, m) ==
    /\ DOMAIN nd = 0 .. (m - 1)
    /\ r = m - 1
    /\ \A i \in 0 .. (m - 1) :
          /\ nd[i].value = i + 1
          /\ nd[i].right = Null
          /\ nd[i].left = (IF i = 0 THEN Null ELSE i - 1)
          /\ nd[i].parent = (IF i = m - 1 THEN Null ELSE i + 1)

\* C7: for n >= 1, build(n) yields the chain of n nodes with keys 1..n:
\* node n is the root, node i has node i-1 as left and no right, node 1 has
\* no children.
C7_InitialShape ==
    /\ c_pc = "ready" /\ n >= 1 =>
          ~c_M.T.null /\ c_M.T.size = n /\ ChainShape(c_nd, c_root, n)
    /\ cpp_pc = "ready" /\ n >= 1 => ChainShape(cpp_nd, cpp_root, n)

\* Both trees have just been built with three nodes or more.
C7_Witness ==
    /\ n >= 3
    /\ c_pc = "ready" /\ c_nd[c_root].value = n /\ c_nd[c_root].left = n - 2
    /\ cpp_pc = "ready" /\ cpp_nd[cpp_root].value = n /\ cpp_nd[cpp_root].left = n - 2

\* C8: build(0) yields a result with no node and no root, on which no call
\* of splay_by_key succeeds.
C8_EmptyConstruction ==
    n = 0 =>
        /\ DOMAIN c_nd = {} /\ c_root = Null /\ c_pc # "done"
        /\ DOMAIN cpp_nd = {} /\ cpp_root = Null /\ cpp_pc # "done"

\* C9: the allocation keeps its slots and every slot keeps its key; slot
\* k-1 holds key k, and the lookup of splay_by_key(k) yields slot k-1, for
\* every k in 1..n.
C9_FixedNodeSet ==
    /\ [](c_live =>
            /\ DOMAIN c_nd = 0 .. (n - 1)
            /\ \A k \in 1 .. n :
                  c_lookup(c_M.T, k) = k - 1 /\ c_nd[k - 1].value = k)
    /\ [](cpp_live =>
            \A k \in 1 .. n :
                /\ cpp_splay_entry(cpp_run(cpp_M.T), k).x = k - 1
                /\ k - 1 \in DOMAIN cpp_nd
                /\ cpp_nd[k - 1].value = k)
    /\ [][c_live /\ c_live' =>
            /\ DOMAIN c_nd' = DOMAIN c_nd
            /\ \A p \in DOMAIN c_nd : c_nd'[p].value = c_nd[p].value]_vars
    /\ [][cpp_live /\ cpp_live' =>
            /\ DOMAIN cpp_nd' = DOMAIN cpp_nd
            /\ \A p \in DOMAIN cpp_nd : cpp_nd'[p].value = cpp_nd[p].value]_vars

\* Both programs have rotated the tree away from the chain and have since
\* taken a call for the key in the last slot.
C9_Witness ==
    /\ n >= 3 /\ key = n
    /\ c_pc = "loop" /\ c_root # n - 1 /\ c_x = n - 1 /\ c_nd[c_x].value = n
    /\ cpp_pc = "loop" /\ cpp_root # n - 1 /\ cpp_x = n - 1 /\ cpp_nd[cpp_x].value = n

\* The depth of x after a completed splay_step against its depth before:
\* one less after the single rotation of a zig, which is the case of depth
\* 1, and two less after the two rotations of a zig-zig or zig-zag.
DepthReduced(nd, x, last) ==
    /\ Len(last.plan) \in {1, 2}
    /\ Len(last.plan) = 1 <=> last.depth = 1
    /\ Depth(nd, x) = last.depth - Len(last.plan)

\* C10: one splay_step on a node that is not the root lowers its depth by
\* exactly 1 in the zig case and by exactly 2 in the zig-zig and zig-zag
\* cases.
C10_DepthReduction ==
    /\ c_live /\ c_pc \in {"loop", "done"} /\ c_steps >= 1 =>
          DepthReduced(c_nd, c_x, c_last)
    /\ cpp_live /\ cpp_pc \in {"loop", "done"} /\ cpp_steps >= 1 =>
          DepthReduced(cpp_nd, cpp_x, cpp_last)

\* Both programs have completed a two-rotation step that left the node
\* short of the root.
C10_Witness ==
    /\ c_pc = "loop" /\ c_last.depth = 3 /\ Depth(c_nd, c_x) = 1
    /\ Len(c_last.plan) = 2
    /\ cpp_pc = "loop" /\ cpp_last.depth = 3 /\ Depth(cpp_nd, cpp_x) = 1
    /\ Len(cpp_last.plan) = 2

\* C11: in the runs from build(n), n >= 1, no check fires but the key
\* check of the entry points, and the programs stop for no other reason
\* than a key outside [1, n]: the C program prints nothing else ("Invalid
\* tree", the NULL-pivot and the swap_child diagnostics never appear) and
\* dereferences no invalid pointer, no C++ assert of splay_step, of the
\* rotations or of replace_child fails, and while the key of the call is
\* valid nothing at all has been printed or has failed.
C11_NoFailureFromValidInputs ==
    n >= 1 =>
        /\ c_M.log \subseteq {"Invalid node request"}
        /\ (c_M.ub \/ c_pc \in Dead \cup {"ub"}) => "Invalid node request" \in c_M.log
        /\ c_pc \notin Dead \cup {"ub"} /\ c_pc # "ready" /\ key \in 1 .. n =>
              c_M.log = {} /\ c_x \in DOMAIN c_nd
        /\ cpp_M.failed \in {"", "1 <= key && key <= nodes.size()"}
        /\ ~cpp_M.ub
        /\ cpp_pc # "ready" /\ key \in 1 .. n =>
              cpp_M.failed = "" /\ cpp_pc \in {"loop", "rotate", "done"}

\* Both programs have returned from a valid call whose last step was a
\* double rotation, after an earlier call, with nothing printed or failed.
C11_Witness ==
    /\ n >= 3 /\ key \in 1 .. n
    /\ c_pc = "done" /\ Len(c_last.plan) = 2 /\ c_steps >= 2 /\ c_M.log = {}
    /\ cpp_pc = "done" /\ Len(cpp_last.plan) = 2 /\ cpp_steps >= 2
    /\ cpp_M.failed = ""

---------------------------------------------------------------------------
(* The rotations called on their own: from the tree each program builds,   *)
(* any rotation whose pivot exists may be called, so every shape of the    *)
(* n keys is reached.                                                       *)

\* The child that a rotation in direction dir lifts over its parent.
Pivot(dir) == IF dir = "right" THEN "left" ELSE "right"

Opposite(dir) == IF dir = "right" THEN "left" ELSE "right"

RotCallable ==
    /\ c_pc = "ready" /\ cpp_pc = "ready"
    /\ ~c_M.T.null /\ ~c_M.ub /\ c_M.log = {}
    /\ ~cpp_halted(cpp_M)

\* rotate_right(T, y) or rotate_left(T, y), and the same call on the C++
\* tree; the pivot exists in both trees.
Rotate(dir, y) ==
    /\ RotCallable
    /\ y \in DOMAIN c_nd /\ c_nd[y][Pivot(dir)] \in DOMAIN c_nd
    /\ y \in DOMAIN cpp_nd /\ cpp_nd[y][Pivot(dir)] \in DOMAIN cpp_nd
    /\ c_M' = c_rotate(c_M, [dir |-> dir, at |-> y])
    /\ cpp_M' = cpp_rotate(cpp_M, [dir |-> dir, at |-> y])
    /\ rot' = [dir |-> dir, at |-> y, back |-> FALSE,
               c |-> c_M.T, cpp |-> cpp_M.T, c0 |-> c_M.T, cpp0 |-> cpp_M.T]
    /\ UNCHANGED <<n, key, th, c_pc, c_x, c_rots, c_steps, c_d0, c_last,
                   cpp_pc, cpp_x, cpp_rots, cpp_steps, cpp_d0, cpp_last>>

\* The opposite rotation about the node that the latest rotation lifted.
RotateBack ==
    /\ RotCallable
    /\ rot.dir # "none" /\ ~rot.back
    /\ LET x == rot.c.node[rot.at][Pivot(rot.dir)]
           r == [dir |-> Opposite(rot.dir), at |-> x]
       IN  /\ c_M' = c_rotate(c_M, r)
           /\ cpp_M' = cpp_rotate(cpp_M, r)
           /\ rot' = [dir |-> r.dir, at |-> x, back |-> TRUE,
                      c |-> c_M.T, cpp |-> cpp_M.T,
                      c0 |-> rot.c, cpp0 |-> rot.cpp]
    /\ UNCHANGED <<n, key, th, c_pc, c_x, c_rots, c_steps, c_d0, c_last,
                   cpp_pc, cpp_x, cpp_rots, cpp_steps, cpp_d0, cpp_last>>

RotNext ==
    \/ \E dir \in {"right", "left"} : \E y \in 0 .. (MaxN - 1) : Rotate(dir, y)
    \/ RotateBack

RotSpec == Init /\ [][RotNext]_vars

\* The keys 1..m in order.
Sorted(m) == [i \in 1 .. m |-> i]

\* C12: a rotation, in either direction and about any node of any search
\* tree of the keys whose pivot child exists, leaves the inorder
\* sequence of keys as it was: 1..n before and after, in both programs.
C12_RotationsPreserveInorder ==
    rot.dir # "none" =>
        /\ InorderKeys(rot.c.node, rot.c.root) = Sorted(n)
        /\ InorderKeys(c_nd, c_root) = Sorted(n)
        /\ InorderKeys(rot.cpp.nodes, rot.cpp.root) = Sorted(n)
        /\ InorderKeys(cpp_nd, cpp_root) = Sorted(n)
        /\ c_M.log = {} /\ ~c_M.ub /\ ~cpp_halted(cpp_M)

\* A right rotation about an inner node y, whose left child x has both
\* subtrees A and B non-empty, has been performed in both programs.
C12_Witness ==
    /\ rot.dir = "right" /\ ~rot.back
    /\ LET y == rot.at
           x == rot.c.node[y].left
       IN  /\ rot.c.node[y].parent # Null
           /\ rot.c.node[x].left # Null /\ rot.c.node[x].right # Null
           /\ c_nd[x].right = y /\ cpp_nd[x].right = y
           /\ rot.c.root # y

\* What rotate_right(y) does to a tree: pre and r0 are the node table and
\* the root before the call, post and r1 after it.  x = left(y), z =
\* parent(y), A = left(x), B = right(x), C = right(y), all read in pre.
RotateRightEffect(pre, r0, post, r1, y) ==
    LET x == pre[y].left
        z == pre[y].parent
        A == pre[x].left
        B == pre[x].right
        C == pre[y].right
    IN  /\ DOMAIN post = DOMAIN pre
        \* x takes y's place under z, or becomes the root.
        /\ post[x].parent = z
        /\ IF z = Null
           THEN r1 = x /\ r0 = y
           ELSE /\ r1 = r0
                /\ IF pre[z].left = y
                   THEN post[z].left = x /\ post[z].right = pre[z].right
                   ELSE post[z].right = x /\ post[z].left = pre[z].left
                /\ post[z].parent = pre[z].parent
                /\ post[z].value = pre[z].value
        \* y becomes the right child of x, B the left child of y.
        /\ post[x].right = y /\ post[y].parent = x
        /\ post[y].left = B
        /\ B # Null =>
              /\ post[B].parent = y
              /\ post[B].left = pre[B].left /\ post[B].right = pre[B].right
              /\ post[B].value = pre[B].value
        \* left(x) = A and right(y) = C stay.
        /\ post[x].left = A /\ post[y].right = C
        /\ A # Null => post[A].parent = x
        /\ C # Null => post[C].parent = y
        /\ post[x].value = pre[x].value /\ post[y].value = pre[y].value
        \* Nothing else changes.
        /\ \A p \in DOMAIN pre \ {x, y, z, B} : post[p] = pre[p]

\* C13: after rotate_right(y), x = left(y) is where y was (under z =
\* parent(y) on the same side, or the root), y is the right child of x, B
\* = right(x) is the left child of y, left(x) and right(y) are as before,
\* and no relation of a node other than x, y, z and B has changed; in both
\* programs.
C13_RotateRightEffectAndFrame ==
    rot.dir = "right" =>
        /\ RotateRightEffect(rot.c.node, rot.c.root, c_nd, c_root, rot.at)
        /\ RotateRightEffect(rot.cpp.nodes, rot.cpp.root, cpp_nd, cpp_root, rot.at)

\* rotate_right has been called about a right child y with B non-empty
\* and a node outside x, y, z and B in the tree.
C13_Witness ==
    /\ rot.dir = "right"
    /\ LET y == rot.at
           x == rot.c.node[y].left
           z == rot.c.node[y].parent
           B == rot.c.node[x].right
       IN  /\ z # Null /\ rot.c.node[z].right = y
           /\ B # Null
           /\ DOMAIN c_nd \ {x, y, z, B} # {}
           /\ c_nd[z].right = x /\ cpp_nd[z].right = x
           /\ c_nd[y].left = B /\ cpp_nd[y].left = B

\* C14: rotate_right(y) followed by rotate_left about the node it lifted,
\* and rotate_left followed by rotate_right likewise, leaves every node's
\* parent, left and right and the recorded root as they were before the
\* pair, in both programs.
C14_RotationsAreInverses ==
    rot.back =>
        /\ c_M.T = rot.c0 /\ c_M.log = {} /\ ~c_M.ub
        /\ cpp_M.T = rot.cpp0 /\ ~cpp_halted(cpp_M)

\* A rotation about a right child with a non-empty middle subtree has
\* been undone: the first rotation changed the tree, the second one
\* changed it back.
C14_Witness ==
    /\ rot.back
    /\ LET x == rot.at
           y == rot.c.node[x][Pivot(rot.dir)]
           z == rot.c.node[x].parent
       IN  /\ z # Null /\ rot.c.node[z].right = x
           /\ rot.c.node[y][rot.dir] # Null
           /\ rot.c # rot.c0 /\ rot.cpp # rot.cpp0
           /\ c_nd[z].right = y /\ cpp_nd[z].right = y

\* The pair has been called in the order rotate_left, rotate_right too.
C14_WitnessLeftFirst ==
    rot.back /\ rot.dir = "right" /\ rot.c # rot.c0 /\ c_M.T = rot.c0

---------------------------------------------------------------------------
(* The shape a double step of splay_step leaves: pre and r0 are the node   *)
(* table and the root before the step, post and r1 after it, x the node    *)
(* splayed, y its parent, z its grandparent, s the side of y under z.      *)

Sides == {"left", "right"}

\* x takes the place z had: the same slot of z's former parent, or root.
TakesPlaceOf(pre, r0, post, r1, x, z) ==
    LET g == pre[z].parent
    IN  /\ post[x].parent = g
        /\ IF g = Null THEN r0 = z /\ r1 = x
           ELSE /\ r1 = r0
                /\ pre[g].left = z => post[g].left = x
                /\ pre[g].right = z => post[g].right = x
                /\ pre[g].left = z \/ pre[g].right = z

\* p has c as its child on side f, or no child there when c is null.
Holds(post, p, f, c) ==
    post[p][f] = c /\ (c # Null => post[c].parent = p)

\* x is the s child of y and y is the s child of z.
ZigZigCase(pre, x, s) ==
    /\ x \in DOMAIN pre /\ pre[x].parent \in DOMAIN pre
    /\ pre[pre[x].parent].parent \in DOMAIN pre
    /\ pre[pre[x].parent][s] = x
    /\ pre[pre[pre[x].parent].parent][s] = pre[x].parent

ZigZigPlan(pre, x, s) ==
    LET y == pre[x].parent
        z == pre[y].parent
    IN  <<[dir |-> Opposite(s), at |-> z], [dir |-> Opposite(s), at |-> y]>>

ZigZigShape(pre, r0, post, r1, x, s) ==
    LET y == pre[x].parent
        z == pre[y].parent
        o == Opposite(s)
    IN  /\ TakesPlaceOf(pre, r0, post, r1, x, z)
        /\ Holds(post, x, o, y)
        /\ Holds(post, y, o, z)
        /\ Holds(post, y, s, pre[x][o])
        /\ Holds(post, z, s, pre[y][o])
        /\ Holds(post, x, s, pre[x][s])
        /\ Holds(post, z, o, pre[z][o])
        \* not what rotating about y and then about z gives
        /\ post[x][o] # z
        /\ ~(post[y].parent = x /\ post[z].parent = x)

\* C15: when x is the left child of a left child (or the right child of a
\* right child), splay_step(x) rotates about z and then about y, both away
\* from x's side, and when the step is over x is where z was, y is the
\* child of x and z the child of y on the other side, y has taken x's
\* former inner subtree and z has taken y's; y and z are never both
\* children of x.  In both programs.
C15_ZigZigShape ==
    \A s \in Sides :
        /\ c_pc \in {"rotate", "loop", "done"} /\ c_last.pre # <<>>
              /\ ZigZigCase(c_last.pre, c_x, s) =>
               /\ c_last.plan = ZigZigPlan(c_last.pre, c_x, s)
               /\ c_pc # "rotate" =>
                     ZigZigShape(c_last.pre, c_last.root, c_nd, c_root, c_x, s)
        /\ cpp_pc \in {"rotate", "loop", "done"} /\ cpp_last.pre # <<>>
              /\ ZigZigCase(cpp_last.pre, cpp_x, s) =>
               /\ cpp_last.plan = ZigZigPlan(cpp_last.pre, cpp_x, s)
               /\ cpp_pc # "rotate" =>
                     ZigZigShape(cpp_last.pre, cpp_last.root, cpp_nd, cpp_root,
                                 cpp_x, s)

\* Both programs have finished a zig-zig step below the root, on the side
\* s, in which y handed a non-empty subtree to z.
ZigZigDone(s) ==
    /\ c_pc = "loop" /\ c_last.pre # <<>> /\ ZigZigCase(c_last.pre, c_x, s)
    /\ cpp_pc = "loop" /\ cpp_last.pre # <<>>
    /\ ZigZigCase(cpp_last.pre, cpp_x, s)
    /\ LET y == c_last.pre[c_x].parent
           z == c_last.pre[y].parent
       IN  /\ c_last.pre[z].parent # Null
           /\ c_last.pre[y][Opposite(s)] # Null
           /\ c_nd[z][s] = c_last.pre[y][Opposite(s)]
           /\ cpp_nd[z][s] = c_last.pre[y][Opposite(s)]

C15_Witness == ZigZigDone("left")

C15_WitnessMirror == ZigZigDone("right")

\* x is the inner grandchild: y is the s child of z, x the other child
\* of y.
ZigZagCase(pre, x, s) ==
    /\ x \in DOMAIN pre /\ pre[x].parent \in DOMAIN pre
    /\ pre[pre[x].parent].parent \in DOMAIN pre
    /\ pre[pre[x].parent][Opposite(s)] = x
    /\ pre[pre[pre[x].parent].parent][s] = pre[x].parent

ZigZagPlan(pre, x, s) ==
    LET y == pre[x].parent
        z == pre[y].parent
    IN  <<[dir |-> s, at |-> y], [dir |-> Opposite(s), at |-> z]>>

ZigZagShape(pre, r0, post, r1, x, s) ==
    LET y == pre[x].parent
        z == pre[y].parent
        o == Opposite(s)
    IN  /\ TakesPlaceOf(pre, r0, post, r1, x, z)
        /\ Holds(post, x, s, y)
        /\ Holds(post, x, o, z)
        /\ Holds(post, y, o, pre[x][s])
        /\ Holds(post, z, s, pre[x][o])
        /\ Holds(post, y, s, pre[y][s])
        /\ Holds(post, z, o, pre[z][o])

\* C16: when x is the right child of y and y the left child of z (or the
\* mirror image), splay_step(x) rotates about y towards y's side and then
\* about z the other way, and when the step is over x is where z was with
\* y and z its children, each on the side it was on, y has taken x's
\* former subtree on y's side and z the other one.  In both programs.
C16_ZigZagShape ==
    \A s \in Sides :
        /\ c_pc \in {"rotate", "loop", "done"} /\ c_last.pre # <<>>
              /\ ZigZagCase(c_last.pre, c_x, s) =>
               /\ c_last.plan = ZigZagPlan(c_last.pre, c_x, s)
               /\ c_pc # "rotate" =>
                     ZigZagShape(c_last.pre, c_last.root, c_nd, c_root, c_x, s)
        /\ cpp_pc \in {"rotate", "loop", "done"} /\ cpp_last.pre # <<>>
              /\ ZigZagCase(cpp_last.pre, cpp_x, s) =>
               /\ cpp_last.plan = ZigZagPlan(cpp_last.pre, cpp_x, s)
               /\ cpp_pc # "rotate" =>
                     ZigZagShape(cpp_last.pre, cpp_last.root, cpp_nd, cpp_root,
                                 cpp_x, s)

\* Both programs have finished a zig-zag step, y on the side s of z, in
\* which x handed a non-empty subtree to y or to z.
ZigZagDone(s) ==
    /\ c_pc \in {"loop", "done"} /\ c_last.pre # <<>>
    /\ ZigZagCase(c_last.pre, c_x, s)
    /\ cpp_pc \in {"loop", "done"} /\ cpp_last.pre # <<>>
    /\ ZigZagCase(cpp_last.pre, cpp_x, s)
    /\ LET y == c_last.pre[c_x].parent
           z == c_last.pre[y].parent
       IN  /\ c_last.pre[c_x].left # Null \/ c_last.pre[c_x].right # Null
           /\ c_nd[c_x][s] = y /\ c_nd[c_x][Opposite(s)] = z
           /\ cpp_nd[cpp_x][s] = y /\ cpp_nd[cpp_x][Opposite(s)] = z

C16_Witness == ZigZagDone("left")

C16_WitnessMirror == ZigZagDone("right")

---------------------------------------------------------------------------
(* The two programs side by side.                                          *)

\* The key of the node p points at; 0 for a null pointer, -1 for a pointer
\* at no node.
KeyOf(nd, p) ==
    IF p = Null THEN 0 ELSE IF p \in DOMAIN nd THEN nd[p].value ELSE -1

\* The relations of a tree, key by key.
Relations(nd) ==
    {[key |-> nd[p].value,
      parent |-> KeyOf(nd, nd[p].parent),
      left |-> KeyOf(nd, nd[p].left),
      right |-> KeyOf(nd, nd[p].right)] : p \in DOMAIN nd}

\* C17: for n >= 1, whenever both programs are between two calls, that
\* is after initialize_tree / SplayTree and after every splay /
\* splay_by_key of the same valid keys, their trees have the same root key
\* and the same parent, left and right for every key.
C17_SameTrees ==
    n >= 1 /\ c_pc \in Idle /\ cpp_pc \in Idle =>
        /\ ~c_M.T.null
        /\ KeyOf(c_nd, c_root) = KeyOf(cpp_nd, cpp_root)
        /\ Relations(c_nd) = Relations(cpp_nd)
        /\ Cardinality(Relations(c_nd)) = n
        /\ c_steps = cpp_steps

\* Both programs have returned from a call that took at least two steps,
\* the last one a double rotation, and the tree has a node with two
\* children, which the tree built at the start has not.
C17_Witness ==
    /\ n >= 3 /\ c_pc = "done" /\ cpp_pc = "done"
    /\ c_steps >= 2 /\ Len(c_last.plan) = 2 /\ Len(cpp_last.plan) = 2
    /\ \E p \in DOMAIN c_nd : c_nd[p].left # Null /\ c_nd[p].right # Null
    /\ \E p \in DOMAIN cpp_nd : cpp_nd[p].left # Null /\ cpp_nd[p].right # Null

---------------------------------------------------------------------------
(* Splaying the root.                                                      *)

\* The call of splay(T, k) whose node is the root: the tree is handed to
\* splay_node as it is, with x the root and no step taken.
C_RootCallIsIdle ==
    /\ c_x' = c_root /\ c_pc' = "loop" /\ c_steps' = 0 /\ c_rots' = <<>>
    /\ c_M' = c_M

Cpp_RootCallIsIdle ==
    /\ cpp_x' = cpp_root /\ cpp_pc' = "loop" /\ cpp_steps' = 0
    /\ cpp_rots' = <<>> /\ cpp_M' = cpp_M

\* C18: a call with the key the root already holds makes x the root, and
\* from there the only step of the program is the return, with no
\* rotation and with every relation and the root as they were; so the
\* call of the key just splayed, and the call of key 1 on the tree of one
\* node, change nothing.  In both programs.
C18_SplayRootIsNoOp ==
    [][/\ \A k \in Keys :
            /\ Call(k) /\ c_pc \in Idle /\ c_root \in DOMAIN c_nd
                  /\ c_nd[c_root].value = k => C_RootCallIsIdle
            /\ Call(k) /\ cpp_pc \in Idle /\ n >= 1 /\ cpp_root \in DOMAIN cpp_nd
                  /\ cpp_nd[cpp_root].value = k => Cpp_RootCallIsIdle
            /\ Call(k) /\ c_pc = "done" /\ k = key /\ k \in 1 .. n
                  => C_RootCallIsIdle
            /\ Call(k) /\ cpp_pc = "done" /\ k = key /\ k \in 1 .. n
                  => Cpp_RootCallIsIdle
       /\ Call(1) /\ n = 1 => C_RootCallIsIdle /\ Cpp_RootCallIsIdle
       /\ c_pc = "loop" /\ c_x = c_root /\ c_vars' # c_vars =>
            /\ c_pc' = "done" /\ c_M' = c_M
            /\ c_steps' = c_steps /\ c_rots' = c_rots /\ c_last' = c_last
       /\ cpp_pc = "loop" /\ cpp_x = cpp_root /\ cpp_vars' # cpp_vars =>
            /\ cpp_pc' = "done" /\ cpp_M' = cpp_M
            /\ cpp_steps' = cpp_steps /\ cpp_rots' = cpp_rots
            /\ cpp_last' = cpp_last]_vars

\* Both programs have returned from a call of the key the root already
\* held, on a tree that an earlier call has reshaped: no step was taken.
C18_Witness ==
    /\ n >= 3 /\ key \in 1 .. (n - 1)
    /\ c_pc = "done" /\ c_steps = 0 /\ c_last = NoStep
    /\ c_nd[c_root].value = key /\ c_x = c_root
    /\ cpp_pc = "done" /\ cpp_steps = 0 /\ cpp_last = NoStep
    /\ cpp_nd[cpp_root].value = key /\ cpp_x = cpp_root

---------------------------------------------------------------------------
(* Two callers on one tree: each runs one splay with a valid key, and the  *)
(* two interleave between any two writes of a pointer.  A step of a thread *)
(* is one write together with the reads and tests that lead to it (or the  *)
(* reads and tests that lead to the return); the locals a rotation reads   *)
(* at its start stay as read.                                              *)

\* The largest tree the two callers share, and the number of calls of
\* splay_step after which a caller is no longer followed.
ConcN == 3
ConcSteps == 2

\* One write of a rotation.  "store": p->f = v.  "root": T->root = v, old
\* the node taken for the root.  "slot": the child slot of p that holds
\* old is given v (swap_child).  "adopt": the f child of p, if any, gets
\* p as parent.
Op(op, p, f, v, old) == [op |-> op, p |-> p, f |-> f, v |-> v, old |-> old]

\* c_set_writes without the write of the child's parent.
c_set_writes_one_way(parent, f, child) ==
    <<Op("store", parent, f, child, Null)>>

\* The writes of set_left (f = "left") and set_right (f = "right").
c_set_writes(parent, f, child) ==
    <<Op("store", parent, f, child, Null)>>
    \o (IF child # Null THEN <<Op("store", child, "parent", parent, Null)>>
        ELSE <<>>)

\* The writes of swap_child(T, parent, old, new).
c_swap_writes(parent, old, new) ==
    <<Op("store", new, "parent", parent, Null),
      IF parent = Null THEN Op("root", Null, "", new, old)
      ELSE Op("slot", parent, "", new, old)>>

\* rotate_right / rotate_left up to the first write: the checks, the
\* locals, and the writes that follow from them in order.
c_rotate_begin(M, r) ==
    LET stop(MM) == [M |-> MM, ops |-> <<>>]
        y  == r.at
        M1 == IF y = Null THEN c_print(M, "Cannot rotate around NULL") ELSE M
    IN  IF M.ub THEN stop(M)
        ELSE IF ~c_valid(M1, y) THEN stop(c_undefined(M1))
        ELSE LET x  == c_load(M1, y, Pivot(r.dir))
                 M2 == IF x = Null
                       THEN c_print(M1, IF r.dir = "right"
                                THEN "No left node found to replace the root"
                                ELSE "No right node found to replace the root")
                       ELSE M1
             IN  IF ~c_valid(M2, x) THEN stop(c_undefined(M2))
                 ELSE LET z == c_load(M2, y, "parent")
                          outer == c_load(M2, x, Pivot(r.dir))
                          inner == c_load(M2, x, r.dir)
                          far   == c_load(M2, y, r.dir)
                      IN  [M |-> M2,
                           ops |-> c_swap_writes(z, y, x)
                                   \o c_set_writes(x, Pivot(r.dir), outer)
                                   \o c_set_writes(x, r.dir, y)
                                   \o c_set_writes(y, Pivot(r.dir), inner)
                                   \o c_set_writes(y, r.dir, far)]

\* One write of the C program.
c_exec(M, o) ==
    IF M.ub THEN M
    ELSE IF o.op = "store" THEN
        (IF o.p = Null /\ o.f # "parent"
         THEN c_store(c_print(M, "missing node"), o.p, o.f, o.v)
         ELSE c_store(M, o.p, o.f, o.v))
    ELSE IF o.op = "root" THEN
        LET M1 == IF M.T.root # o.old
                  THEN c_print(M, "Can't swap out a non-root node at the root")
                  ELSE M
        IN  [M1 EXCEPT !.T.root = o.v]
    ELSE IF ~c_valid(M, o.p) THEN c_undefined(M)
    ELSE IF c_load(M, o.p, "left") = o.old THEN c_store(M, o.p, "left", o.v)
    ELSE IF c_load(M, o.p, "right") = o.old THEN c_store(M, o.p, "right", o.v)
    ELSE LET M1 == c_print(M, "Failed to find child")
         IN  IF c_valid(M1, o.old) THEN M1 ELSE c_undefined(M1)

\* The writes of Node::set_left / set_right: the child is read back from
\* the member for the second one.
cpp_set_writes(this, f, child) ==
    <<Op("store", this, f, child, Null), Op("adopt", this, f, Null, Null)>>

\* cpp rotate_right / rotate_left up to the first write.
cpp_rotate_begin(M, r) ==
    LET stop(MM) == [M |-> MM, ops |-> <<>>]
        y  == r.at
        M1 == cpp_assert(M, y # Null,
                         IF r.dir = "right" THEN "y != nullptr" ELSE "x != nullptr")
    IN  IF cpp_halted(M1) THEN stop(M1)
        ELSE IF ~cpp_valid(M1, y) THEN stop(cpp_undefined(M1))
        ELSE LET x  == cpp_load(M1, y, Pivot(r.dir))
                 M2 == cpp_assert(M1, x # Null,
                           IF r.dir = "right" THEN "x != nullptr" ELSE "y != nullptr")
             IN  IF cpp_halted(M2) THEN stop(M2)
                 ELSE IF ~cpp_valid(M2, x) THEN stop(cpp_undefined(M2))
                 ELSE LET z == cpp_load(M2, y, "parent")
                          outer == cpp_load(M2, x, Pivot(r.dir))
                          inner == cpp_load(M2, x, r.dir)
                          far   == cpp_load(M2, y, r.dir)
                          rest  == cpp_set_writes(x, Pivot(r.dir), outer)
                                   \o cpp_set_writes(x, r.dir, y)
                                   \o cpp_set_writes(y, Pivot(r.dir), inner)
                                   \o cpp_set_writes(y, r.dir, far)
                      IN  IF z = Null
                          THEN [M |-> cpp_assert(M2, x # Null, "x != nullptr"),
                                ops |-> <<Op("root", Null, "", x, y),
                                          Op("store", x, "parent", Null, Null)>>
                                        \o rest]
                          ELSE IF ~cpp_valid(M2, z) THEN stop(cpp_undefined(M2))
                          ELSE LET M3 == cpp_assert(M2,
                                             cpp_load(M2, z, "left") = y
                                             \/ cpp_load(M2, z, "right") = y,
                                             "left == old || right == old")
                                   side == IF cpp_load(M2, z, "left") = y
                                           THEN "left" ELSE "right"
                               IN  IF cpp_halted(M3) THEN stop(M3)
                                   ELSE [M |-> M3,
                                         ops |-> cpp_set_writes(z, side, x)
                                                 \o rest]

\* One write of the C++ program.
cpp_exec(M, o) ==
    IF cpp_halted(M) THEN M
    ELSE IF o.op = "store" THEN cpp_store(M, o.p, o.f, o.v)
    ELSE IF o.op = "root" THEN [M EXCEPT !.T.root = o.v]
    ELSE IF ~cpp_valid(M, o.p) THEN cpp_undefined(M)
    ELSE LET c == cpp_load(M, o.p, o.f)
         IN  IF c = Null THEN M ELSE cpp_store(M, c, "parent", o.p)

\* A caller: its key, where it is, the node it splays, the rotations left
\* of its step, the writes left of its rotation, its calls of splay_step.
Thread(k) ==
    [key |-> k, pc |-> "start", x |-> Null, rots |-> <<>>, ops |-> <<>>,
     steps |-> 0]

\* Where a caller goes after a write.
AfterWrite(bad, ops, rots) ==
    IF bad # "" THEN bad
    ELSE IF ops # <<>> THEN "write"
    ELSE IF rots # <<>> THEN "rotate" ELSE "loop"

c_bad(M) == IF M.ub THEN "ub" ELSE ""

cpp_bad(M) == IF M.failed # "" THEN "aborted" ELSE IF M.ub THEN "ub" ELSE ""

\* The next rotation of the step, up to the end of its first write.
c_thread_rotate(M, me) ==
    LET W == c_rotate_begin(M, Head(me.rots))
        M1 == IF W.ops = <<>> THEN W.M ELSE c_exec(W.M, Head(W.ops))
        rest == IF W.ops = <<>> THEN <<>> ELSE Tail(W.ops)
    IN  [M |-> M1,
         me |-> [me EXCEPT !.rots = Tail(me.rots), !.ops = rest,
                           !.pc = AfterWrite(c_bad(M1), rest, Tail(me.rots))]]

\* One step of a caller of splay(T, key).
c_thread_step(M, me) ==
    IF me.pc = "write"
    THEN LET M1 == c_exec(M, Head(me.ops))
         IN  [M |-> M1,
              me |-> [me EXCEPT !.ops = Tail(me.ops),
                                !.pc = AfterWrite(c_bad(M1), Tail(me.ops), me.rots)]]
    ELSE IF me.pc = "rotate" THEN c_thread_rotate(M, me)
    ELSE LET e  == IF me.pc = "start" THEN c_splay_entry(M, me.key)
                   ELSE [M |-> M, x |-> me.x]
             m1 == [me EXCEPT !.x = e.x]
         IN  IF e.M.ub THEN [M |-> e.M, me |-> [m1 EXCEPT !.pc = "ub"]]
             ELSE IF e.M.T.root = e.x
             THEN [M |-> c_splay_exit(e.M, me.key), me |-> [m1 EXCEPT !.pc = "done"]]
             ELSE LET P == c_splay_step_cases(e.M, e.x)
                      m2 == [m1 EXCEPT !.steps = me.steps + 1, !.rots = P.rots]
                  IN  IF P.M.ub THEN [M |-> P.M, me |-> [m2 EXCEPT !.pc = "ub"]]
                      ELSE IF P.rots = <<>>
                      THEN [M |-> P.M, me |-> [m2 EXCEPT !.pc = "loop"]]
                      ELSE c_thread_rotate(P.M, m2)

cpp_thread_rotate(M, me) ==
    LET W == cpp_rotate_begin(M, Head(me.rots))
        M1 == IF W.ops = <<>> THEN W.M ELSE cpp_exec(W.M, Head(W.ops))
        rest == IF W.ops = <<>> THEN <<>> ELSE Tail(W.ops)
    IN  [M |-> M1,
         me |-> [me EXCEPT !.rots = Tail(me.rots), !.ops = rest,
                           !.pc = AfterWrite(cpp_bad(M1), rest, Tail(me.rots))]]

\* One step of a caller of splay_by_key(key).
cpp_thread_step(M, me) ==
    IF me.pc = "write"
    THEN LET M1 == cpp_exec(M, Head(me.ops))
         IN  [M |-> M1,
              me |-> [me EXCEPT !.ops = Tail(me.ops),
                                !.pc = AfterWrite(cpp_bad(M1), Tail(me.ops), me.rots)]]
    ELSE IF me.pc = "rotate" THEN cpp_thread_rotate(M, me)
    ELSE LET e  == IF me.pc = "start" THEN cpp_splay_entry(M, me.key)
                   ELSE [M |-> M, x |-> me.x]
             m1 == [me EXCEPT !.x = e.x]
         IN  IF cpp_halted(e.M) THEN [M |-> e.M, me |-> [m1 EXCEPT !.pc = cpp_bad(e.M)]]
             ELSE IF e.M.T.root = e.x
             THEN [M |-> e.M, me |-> [m1 EXCEPT !.pc = "done"]]
             ELSE LET P == cpp_splay_step_cases(e.M, e.x)
                      m2 == [m1 EXCEPT !.steps = me.steps + 1, !.rots = P.rots]
                  IN  IF cpp_halted(P.M)
                      THEN [M |-> P.M, me |-> [m2 EXCEPT !.pc = cpp_bad(P.M)]]
                      ELSE IF P.rots = <<>>
                      THEN [M |-> P.M, me |-> [m2 EXCEPT !.pc = "loop"]]
                      ELSE cpp_thread_rotate(P.M, m2)

\* A caller that has started and neither returned nor stopped.
Running == {"loop", "rotate", "write"}

\* Two callers are started on the tree of one of the programs, each with
\* a key of the tree.
Spawn(prog, k1, k2) ==
    /\ th.prog = "none" /\ rot.dir = "none"
    /\ c_pc = "ready" /\ cpp_pc = "ready"
    /\ 1 <= n /\ n <= ConcN
    /\ k1 \in 1 .. n /\ k2 \in 1 .. n
    /\ th' = [prog |-> prog, overlap |-> FALSE, t |-> <<Thread(k1), Thread(k2)>>]
    /\ UNCHANGED <<n, key, c_vars, cpp_vars, rot>>

\* The program stops: an assert has failed, or an invalid pointer has been
\* dereferenced and the process is killed, spins, or has written through
\* the pointer into the allocation.
Stopped(how) == [i \in DOMAIN th.t |-> [th.t[i] EXCEPT !.pc = how]]

\* One step of caller i.
ThreadStep(i) ==
    /\ th.prog # "none"
    /\ LET me == th.t[i]
           other == th.t[3 - i]
           over == th.overlap \/ other.pc \in Running
       IN  /\ me.pc \in {"start", "ub"} \cup Running
           /\ \/ me.steps < ConcSteps
              \/ me.pc \in {"write", "rotate", "ub"}
              \/ me.x = (IF th.prog = "c" THEN c_M.T.root ELSE cpp_M.T.root)
           /\ IF me.pc = "ub"
              THEN \E o \in {"crashed", "hung", "corrupted"} :
                      /\ th' = [th EXCEPT !.t = Stopped(o)]
                      /\ IF o # "corrupted" THEN UNCHANGED <<c_M, cpp_M>>
                         ELSE \E p \in 0 .. (n - 1), f \in {"parent", "left", "right"},
                                 v \in 0 .. (n - 1) \cup {Null} :
                                 IF th.prog = "c"
                                 THEN /\ c_M' = [c_M EXCEPT !.T.node[p][f] = v]
                                      /\ UNCHANGED cpp_M
                                 ELSE /\ cpp_M' = [cpp_M EXCEPT !.T.nodes[p][f] = v]
                                      /\ UNCHANGED c_M
              ELSE IF th.prog = "c"
              THEN LET R == c_thread_step(c_M, me)
                   IN  /\ c_M' = R.M
                       /\ th' = [th EXCEPT !.t[i] = R.me, !.overlap = over]
                       /\ UNCHANGED cpp_M
              ELSE LET R == cpp_thread_step(cpp_M, me)
                   IN  /\ cpp_M' = R.M
                       /\ th' = IF R.me.pc = "aborted"
                                THEN [th EXCEPT !.t = Stopped("aborted"),
                                                !.overlap = over]
                                ELSE [th EXCEPT !.t[i] = R.me, !.overlap = over]
                       /\ UNCHANGED c_M
    /\ UNCHANGED <<n, key, rot, c_pc, c_x, c_rots, c_steps, c_d0, c_last,
                   cpp_pc, cpp_x, cpp_rots, cpp_steps, cpp_d0, cpp_last>>

ConcNext ==
    \/ \E prog \in {"c", "cpp"} : \E k1, k2 \in 1 .. ConcN : Spawn(prog, k1, k2)
    \/ \E i \in {1, 2} : ThreadStep(i)

ConcSpec == Init /\ [][ConcNext]_vars

\* The tree the callers share.
conc_nd == IF th.prog = "c" THEN c_nd ELSE cpp_nd
conc_root == IF th.prog = "c" THEN c_root ELSE cpp_root
conc_clean ==
    IF th.prog = "c" THEN c_M.log = {} /\ ~c_M.ub ELSE ~cpp_halted(cpp_M)

WellFormed(nd, r) ==
    /\ SingleRoot(nd, r)
    /\ ParentChildConsistent(nd, r)
    /\ InorderKeys(nd, r) = Sorted(Cardinality(DOMAIN nd))

\* No caller is inside a rotation.
Quiet == \A i \in DOMAIN th.t : th.t[i].pc \in {"start", "loop", "rotate", "done"}

\* C19: the tree takes harm only from callers that interleave.  As long
\* as no caller has taken a step while the other was inside its call, no
\* check fires and no caller stops, between rotations the tree is well
\* formed, after a return the root is the key splayed last, and no caller
\* has called splay_step more than n/2 times; interleaved, the same callers with the same valid
\* keys reach the states of the witnesses.
C19_OnlyInterleavingBreaksTheTree ==
    th.prog # "none" /\ ~th.overlap =>
        /\ conc_clean
        /\ \A i \in DOMAIN th.t :
              /\ th.t[i].pc \in {"start", "done"} \cup Running
              /\ th.t[i].steps <= n \div 2
              /\ th.t[i].pc = "done"
                    /\ (\A j \in DOMAIN th.t \ {i} : th.t[j].pc = "start")
                    => conc_nd[conc_root].value = th.t[i].key
        /\ (\A i \in DOMAIN th.t : th.t[i].pc = "done") =>
              \E i \in DOMAIN th.t : conc_nd[conc_root].value = th.t[i].key
        /\ Quiet => WellFormed(conc_nd, conc_root)

\* Both callers have returned from splay with valid keys, no check has
\* fired, and the tree they leave is not well formed.
C19_Witness ==
    /\ th.prog = "c" /\ th.overlap
    /\ \A i \in DOMAIN th.t : th.t[i].pc = "done"
    /\ ~c_M.ub
    /\ ~WellFormed(c_nd, c_root)

\* The same in the C++ program.
C19_WitnessCpp ==
    /\ th.prog = "cpp" /\ th.overlap
    /\ \A i \in DOMAIN th.t : th.t[i].pc = "done"
    /\ ~cpp_halted(cpp_M)
    /\ ~WellFormed(cpp_nd, cpp_root)

\* An assert of the C++ program has failed with both keys valid.
C19_WitnessAssert ==
    /\ th.prog = "cpp" /\ th.overlap
    /\ \A i \in DOMAIN th.t : th.t[i].pc = "aborted"

\* A single caller is inside a rotation, the other has not started, and
\* the tree is not consistent between parents and children.
C19_WitnessInsideRotation ==
    /\ th.prog # "none" /\ ~th.overlap
    /\ \E i \in DOMAIN th.t :
          /\ th.t[i].pc = "write"
          /\ \A j \in DOMAIN th.t \ {i} : th.t[j].pc = "start"
    /\ ~ParentChildConsistent(conc_nd, conc_root)

====
